---- MODULE Spec2Model ----
(***************************************************************************)
(* A model of the float and integer writers of rust-lexical:               *)
(*   src/src/ftoa/grisu2.rs             round_digit, generate_digits,      *)
(*                                      grisu2, emit_digits, fpconv_dtoa   *)
(*   src/lexical-write-integer/src/api.rs   unsigned, signed, to_lexical   *)
(*                                                                         *)
(* The u64 values of grisu2.rs do not fit the integers of the model        *)
(* checker, so a u64 is a little-endian sequence of 15-bit limbs with no   *)
(* leading zero limb (zero is <<>>); every u64 operation of the code is    *)
(* the exact operation on that representation, reduced modulo 2^64 where   *)
(* the code's operation wraps.                                             *)
(***************************************************************************)
EXTENDS Integers, Sequences, FiniteSets, TLC

\* ------------------------------------------------------------------------
\* Exact arithmetic on naturals of any size (limb sequences).
\* ------------------------------------------------------------------------

LimbBits == 15
Limb == 32768

RECURSIVE Pow2(_)
Pow2(n) == IF n = 0 THEN 1 ELSE 2 * Pow2(n - 1)

RECURSIVE Norm(_)
Norm(s) == IF s = <<>> THEN s
           ELSE IF s[Len(s)] = 0 THEN Norm(SubSeq(s, 1, Len(s) - 1))
           ELSE s

RECURSIVE FromInt(_)
FromInt(n) == IF n = 0 THEN <<>> ELSE <<n % Limb>> \o FromInt(n \div Limb)

RECURSIVE ToInt(_)
ToInt(a) == IF a = <<>> THEN 0 ELSE a[1] + Limb * ToInt(Tail(a))

LimbAt(a, i) == IF 1 <= i /\ i <= Len(a) THEN a[i] ELSE 0

RECURSIVE CmpFrom(_, _, _)
CmpFrom(a, b, i) ==
    IF i = 0 THEN 0
    ELSE IF a[i] < b[i] THEN -1
    ELSE IF a[i] > b[i] THEN 1
    ELSE CmpFrom(a, b, i - 1)

Cmp(a, b) == IF Len(a) < Len(b) THEN -1
             ELSE IF Len(a) > Len(b) THEN 1
             ELSE CmpFrom(a, b, Len(a))

Lt(a, b) == Cmp(a, b) < 0
Le(a, b) == Cmp(a, b) <= 0

\* the carry out of position i of column sums t, each in 0..2*Limb-1
RECURSIVE CarryOut(_, _)
CarryOut(t, i) ==
    IF i = 0 THEN 0
    ELSE IF t[i] >= Limb THEN 1
    ELSE IF t[i] = Limb - 1 THEN CarryOut(t, i - 1)
    ELSE 0

Carried(t) == Norm([i \in 1..Len(t) |-> (t[i] + CarryOut(t, i - 1)) % Limb])

Add(a, b) ==
    LET n == (IF Len(a) > Len(b) THEN Len(a) ELSE Len(b)) + 1
    IN  Carried([i \in 1..n |-> LimbAt(a, i) + LimbAt(b, i)])

\* the borrow out of position i of column differences t, each in -Limb+1..Limb-1
RECURSIVE BorrowOut(_, _)
BorrowOut(t, i) ==
    IF i = 0 THEN 0
    ELSE IF t[i] < 0 THEN 1
    ELSE IF t[i] = 0 THEN BorrowOut(t, i - 1)
    ELSE 0

\* a - b for a >= b
Sub(a, b) ==
    LET t == [i \in 1..Len(a) |-> a[i] - LimbAt(b, i)]
    IN  Norm([i \in 1..Len(a) |-> (t[i] - BorrowOut(t, i - 1)) % Limb])

\* a * m for a small factor 0 <= m <= Limb
MulSmall(a, m) ==
    LET p == [i \in 1..Len(a) |-> a[i] * m]
    IN  Carried([i \in 1..(Len(a) + 1) |-> (LimbAt(p, i) % Limb) + (LimbAt(p, i - 1) \div Limb)])

ShlLimbs(a, q) == IF a = <<>> THEN a ELSE [i \in 1..q |-> 0] \o a

\* the low (hi = FALSE) or high halves of the limb products of column c,
\* summed over the limbs i.. of a
RECURSIVE ColSum(_, _, _, _, _)
ColSum(a, b, c, i, hi) ==
    IF i > Len(a) \/ i > c THEN 0
    ELSE (IF c + 1 - i > Len(b) THEN 0
          ELSE IF hi THEN (a[i] * b[c + 1 - i]) \div Limb
          ELSE (a[i] * b[c + 1 - i]) % Limb)
         + ColSum(a, b, c, i + 1, hi)

MulShort(a, b) ==
    LET n == Len(a) + Len(b)
        u == [c \in 1..n |-> ColSum(a, b, c, 1, FALSE)]
        v == [c \in 1..n |-> ColSum(a, b, c, 1, TRUE)]
        x == [c \in 1..n |-> u[c] + LimbAt(v, c - 1)]
    IN  Carried([c \in 1..(n + 1) |-> (LimbAt(x, c) % Limb) + (LimbAt(x, c - 1) \div Limb)])

Mul(a, b) == IF a = <<>> \/ b = <<>> THEN <<>>
             ELSE IF Len(a) <= Len(b) THEN MulShort(a, b)
             ELSE MulShort(b, a)

\* a * 2^s, a \div 2^s and a % 2^s
BigShl(a, s) == ShlLimbs(MulSmall(a, Pow2(s % LimbBits)), s \div LimbBits)

BigShr(a, s) ==
    LET q == s \div LimbBits
        r == s % LimbBits
    IN  IF q >= Len(a) THEN <<>>
        ELSE Norm([i \in 1..(Len(a) - q) |->
                      (a[q + i] \div Pow2(r))
                      + (LimbAt(a, q + i + 1) % Pow2(r)) * Pow2(LimbBits - r)])

BigLow(a, s) ==
    LET q == s \div LimbBits
        r == s % LimbBits
    IN  IF q >= Len(a) THEN a
        ELSE Norm(SubSeq(a, 1, q) \o <<a[q + 1] % Pow2(r)>>)

\* floor(a / b) for b > 0: binary long division, from the highest quotient
\* bit s that can be set down to bit 0
RECURSIVE DivLoop(_, _, _, _)
DivLoop(r, b, s, q) ==
    IF s < 0 THEN q
    ELSE LET bs == BigShl(b, s)
         IN  IF Le(bs, r) /\ Len(q) >= 0
             THEN DivLoop(Sub(r, bs), b, s - 1, Add(q, BigShl(<<1>>, s)))
             ELSE DivLoop(r, b, s - 1, q)

BigDiv(a, b) ==
    IF Lt(a, b) THEN <<>>
    ELSE DivLoop(a, b, LimbBits * (Len(a) - Len(b) + 1), <<>>)

\* 10^n, by squaring
RECURSIVE BigPow10(_)
BigPow10(n) ==
    IF n = 0 THEN <<1>>
    ELSE LET h == BigPow10(n \div 2)
         IN  MulSmall(Mul(h, h), IF n % 2 = 0 THEN 1 ELSE 10)

\* the u64 operations of the code: a result is reduced modulo 2^64
U64Bits == 64
Wrap64(a) == BigLow(a, U64Bits)
WrappingAdd(a, b) == Wrap64(Add(a, b))
WrappingSub(a, b) == IF Le(b, a) THEN Sub(a, b)
                     ELSE Sub(Add(a, BigShl(<<1>>, U64Bits)), b)
WrappingMul(a, b) == Wrap64(Mul(a, b))
WrappingShl(a, s) == Wrap64(BigShl(a, s))

\* ------------------------------------------------------------------------
\* FloatType (ftoa/float.rs): frac * 2^exp with a u64 frac and an i32 exp.
\* ------------------------------------------------------------------------

BitLen(a) == IF a = <<>> THEN 0
             ELSE LimbBits * (Len(a) - 1)
                  + (CHOOSE n \in 1..LimbBits : Pow2(n - 1) <= a[Len(a)] /\ a[Len(a)] < Pow2(n))

FloatType(frac, exp) == [frac |-> frac, exp |-> exp]

\* the fields of an IEEE-754 double
FracBits == 52
ExpBias == 1075
HiddenBit == BigShl(<<1>>, FracBits)

\* a double is given by its biased exponent field e (0..2046) and its
\* 52-bit fraction field f
from_f64(d) ==
    IF d.e # 0 THEN FloatType(Add(d.f, HiddenBit), d.e - ExpBias)
    ELSE FloatType(d.f, 1 - ExpBias)

\* shift the frac left until its bit 63 is set
normalize(fp) ==
    LET shift == U64Bits - BitLen(fp.frac)
    IN  FloatType(BigShl(fp.frac, shift), fp.exp - shift)

\* the half-way points to the neighbouring doubles, upper normalized to 64
\* bits and lower brought to the same exponent; the lower one is closer when
\* the frac is exactly the hidden bit
normalized_boundaries(fp) ==
    LET u0     == Add(BigShl(fp.frac, 1), <<1>>)
        ushift == (FracBits + 2) - BitLen(u0)
        upfrac == BigShl(u0, ushift + (U64Bits - FracBits - 2))
        upexp  == fp.exp - 1 - ushift - (U64Bits - FracBits - 2)
        lshift == IF fp.frac = HiddenBit THEN 2 ELSE 1
        l0     == Sub(BigShl(fp.frac, lshift), <<1>>)
        lexp   == fp.exp - lshift
    IN  [lower |-> FloatType(WrappingShl(l0, lexp - upexp), upexp),
         upper |-> FloatType(upfrac, upexp)]

\* the upper 64 bits of the 128-bit product, rounded up by the rounding bit
HalfBits == 32
fast_multiply(a, b) ==
    LET ah == BigShr(a.frac, HalfBits)
        al == BigLow(a.frac, HalfBits)
        bh == BigShr(b.frac, HalfBits)
        bl == BigLow(b.frac, HalfBits)
        ah_bl == Mul(ah, bl)
        al_bh == Mul(al, bh)
        al_bl == Mul(al, bl)
        ah_bh == Mul(ah, bh)
        tmp == Add(Add(Add(BigLow(ah_bl, HalfBits), BigLow(al_bh, HalfBits)),
                       BigShr(al_bl, HalfBits)),
                   BigShl(<<1>>, HalfBits - 1))
    IN  FloatType(Wrap64(Add(Add(ah_bh, BigShr(ah_bl, HalfBits)),
                             Add(BigShr(al_bh, HalfBits), BigShr(tmp, HalfBits)))),
                  a.exp + b.exp + U64Bits)

\* the cached powers of ten 10^-348, 10^-340, ..., 10^340 as 64-bit fracs
NPowers == 87
StepPowers == 8
FirstPower == -348
ExpMax == -32
ExpMin == -60

PowersTen == <<
    [frac |-> <<648, 4152, 22144, 21630, 15>>, exp |-> -1220],
    [frac |-> <<16246, 17533, 1534, 21879, 11>>, exp |-> -1193],
    [frac |-> <<11382, 24747, 27776, 22711, 8>>, exp |-> -1166],
    [frac |-> <<13802, 15260, 9513, 31252, 12>>, exp |-> -1140],
    [frac |-> <<15149, 10954, 17065, 21341, 9>>, exp |-> -1113],
    [frac |-> <<17887, 31284, 15372, 12502, 14>>, exp |-> -1087],
    [frac |-> <<18122, 3893, 30815, 23431, 10>>, exp |-> -1060],
    [frac |-> <<23631, 32121, 18418, 31677, 15>>, exp |-> -1034],
    [frac |-> <<22028, 727, 18365, 29364, 11>>, exp |-> -1007],
    [frac |-> <<31804, 8447, 32438, 28288, 8>>, exp |-> -980],
    [frac |-> <<6787, 25259, 28832, 6794, 13>>, exp |-> -954],
    [frac |-> <<18869, 23373, 12862, 27533, 9>>, exp |-> -927],
    [frac |-> <<3019, 18397, 2524, 21729, 14>>, exp |-> -901],
    [frac |-> <<21357, 240, 9797, 30306, 10>>, exp |-> -874],
    [frac |-> <<20055, 15213, 18917, 4576, 8>>, exp |-> -847],
    [frac |-> <<22071, 7158, 20697, 4228, 12>>, exp |-> -821],
    [frac |-> <<6223, 28817, 10684, 1207, 9>>, exp |-> -794],
    [frac |-> <<15047, 19204, 5932, 15268, 13>>, exp |-> -768],
    [frac |-> <<6132, 12159, 16182, 1078, 10>>, exp |-> -741],
    [frac |-> <<11493, 11861, 10848, 31136, 14>>, exp |-> -715],
    [frac |-> <<12942, 21611, 8172, 4547, 11>>, exp |-> -688],
    [frac |-> <<16187, 9612, 21375, 9798, 8>>, exp |-> -661],
    [frac |-> <<19898, 13735, 4252, 12010, 12>>, exp |-> -635],
    [frac |-> <<18838, 30283, 32570, 7004, 9>>, exp |-> -608],
    [frac |-> <<9604, 31429, 12433, 23907, 13>>, exp |-> -582],
    [frac |-> <<23286, 6847, 6496, 7515, 10>>, exp |-> -555],
    [frac |-> <<28966, 15751, 25167, 7959, 15>>, exp |-> -529],
    [frac |-> <<184, 22015, 13986, 11693, 11>>, exp |-> -502],
    [frac |-> <<19083, 22776, 31765, 15122, 8>>, exp |-> -475],
    [frac |-> <<12371, 27010, 32128, 19943, 12>>, exp |-> -449],
    [frac |-> <<9813, 9076, 5682, 12916, 9>>, exp |-> -422],
    [frac |-> <<32445, 24658, 23697, 32715, 13>>, exp |-> -396],
    [frac |-> <<14479, 29131, 30334, 14077, 10>>, exp |-> -369],
    [frac |-> <<32148, 4328, 32574, 17738, 15>>, exp |-> -343],
    [frac |-> <<7119, 8017, 16974, 18979, 11>>, exp |-> -316],
    [frac |-> <<5483, 32286, 17378, 20551, 8>>, exp |-> -289],
    [frac |-> <<12726, 19042, 5461, 28033, 12>>, exp |-> -263],
    [frac |-> <<32684, 8438, 2843, 18943, 9>>, exp |-> -236],
    [frac |-> <<15110, 21590, 17168, 8928, 14>>, exp |-> -210],
    [frac |-> <<4819, 21223, 4709, 20769, 10>>, exp |-> -183],
    [frac |-> <<18958, 1537, 22474, 27709, 15>>, exp |-> -157],
    [frac |-> <<6891, 9250, 8594, 26408, 11>>, exp |-> -130],
    [frac |-> <<2252, 24225, 12325, 26086, 8>>, exp |-> -103],
    [frac |-> <<25900, 17458, 23907, 3512, 13>>, exp |-> -77],
    [frac |-> <<0, 0, 0, 25088, 9>>, exp |-> -50],
    [frac |-> <<0, 0, 5184, 18085, 14>>, exp |-> -24],
    [frac |-> <<0, 22724, 12054, 27591, 10>>, exp |-> 3],
    [frac |-> <<2436, 28968, 26083, 2553, 8>>, exp |-> 30],
    [frac |-> <<5555, 4622, 14831, 1214, 12>>, exp |-> 56],
    [frac |-> <<23664, 30676, 19257, 31729, 8>>, exp |-> 83],
    [frac |-> <<104, 22483, 25234, 11921, 13>>, exp |-> 109],
    [frac |-> <<8773, 12084, 7320, 31353, 9>>, exp |-> 136],
    [frac |-> <<31527, 10633, 2247, 27421, 14>>, exp |-> 162],
    [frac |-> <<11688, 6545, 5346, 1779, 11>>, exp |-> 189],
    [frac |-> <<26075, 13654, 8760, 7736, 8>>, exp |-> 216],
    [frac |-> <<7578, 1250, 30693, 8936, 12>>, exp |-> 242],
    [frac |-> <<26456, 19511, 9394, 4715, 9>>, exp |-> 269],
    [frac |-> <<3562, 13537, 14736, 20495, 13>>, exp |-> 295],
    [frac |-> <<30538, 13790, 3686, 4973, 10>>, exp |-> 322],
    [frac |-> <<27525, 26874, 25070, 4171, 15>>, exp |-> 348],
    [frac |-> <<6263, 29626, 4741, 8871, 11>>, exp |-> 375],
    [frac |-> <<17858, 14135, 6729, 13020, 8>>, exp |-> 402],
    [frac |-> <<23869, 4396, 20247, 16810, 12>>, exp |-> 428],
    [frac |-> <<8371, 29999, 20851, 10581, 9>>, exp |-> 455],
    [frac |-> <<24547, 13120, 32502, 29236, 13>>, exp |-> 481],
    [frac |-> <<3109, 13939, 2259, 11486, 10>>, exp |-> 508],
    [frac |-> <<8028, 18225, 27082, 13876, 15>>, exp |-> 534],
    [frac |-> <<16078, 10707, 32077, 16101, 11>>, exp |-> 561],
    [frac |-> <<16866, 25668, 19551, 18407, 8>>, exp |-> 588],
    [frac |-> <<30885, 9912, 14959, 24838, 12>>, exp |-> 614],
    [frac |-> <<21471, 30274, 27597, 16562, 9>>, exp |-> 641],
    [frac |-> <<12346, 11838, 22386, 5381, 14>>, exp |-> 667],
    [frac |-> <<13206, 14791, 17741, 18126, 10>>, exp |-> 694],
    [frac |-> <<17468, 18766, 29542, 23771, 15>>, exp |-> 720],
    [frac |-> <<17424, 20296, 12594, 23474, 11>>, exp |-> 747],
    [frac |-> <<7194, 27777, 15294, 23900, 8>>, exp |-> 774],
    [frac |-> <<1068, 19631, 15426, 255, 13>>, exp |-> 800],
    [frac |-> <<12585, 21282, 5015, 22661, 9>>, exp |-> 827],
    [frac |-> <<3229, 17208, 28654, 14468, 14>>, exp |-> 853],
    [frac |-> <<29737, 17527, 869, 24897, 10>>, exp |-> 880],
    [frac |-> <<20357, 30031, 11641, 546, 8>>, exp |-> 907],
    [frac |-> <<23853, 1881, 4352, 30991, 11>>, exp |-> 933],
    [frac |-> <<32655, 15497, 28861, 29500, 8>>, exp |-> 960],
    [frac |-> <<14401, 14617, 24182, 8600, 13>>, exp |-> 986],
    [frac |-> <<7081, 27078, 28234, 28878, 9>>, exp |-> 1013],
    [frac |-> <<30681, 30142, 32186, 23733, 14>>, exp |-> 1039],
    [frac |-> <<28267, 14305, 2286, 31800, 10>>, exp |-> 1066]
>>

\* the cached power that brings a value of binary exponent exp into the
\* window ExpMin..ExpMax, and its decimal exponent; the search starts at
\* the index estimated from exp * log10(2) (30103 / 100000)
RECURSIVE CachedSearch(_, _)
CachedSearch(exp, idx) ==
    LET current == exp + PowersTen[idx + 1].exp + U64Bits
    IN  IF current < ExpMin THEN CachedSearch(exp, idx + 1)
        ELSE IF current > ExpMax THEN CachedSearch(exp, idx - 1)
        ELSE [cp |-> PowersTen[idx + 1], k |-> FirstPower + idx * StepPowers]

TruncDiv(a, b) == IF a >= 0 THEN a \div b ELSE -((-a) \div b)

cached_grisu_power(exp) ==
    LET approx == TruncDiv((-(exp + NPowers)) * 30103, 100000)
    IN  CachedSearch(exp, TruncDiv(approx - FirstPower, StepPowers))

\* ------------------------------------------------------------------------
\* Memory: a buffer of cap bytes is a function on 0..cap; cell cap stands
\* for every address outside the buffer, so an access outside it is kept
\* visible instead of being dropped.  Unwritten marks a byte never stored.
\* ------------------------------------------------------------------------

Unwritten == -1
Buffer(cap) == [i \in 0..cap |-> Unwritten]
Capacity(mem) == Cardinality(DOMAIN mem) - 1
Cell(mem, i) == IF 0 <= i /\ i < Capacity(mem) THEN i ELSE Capacity(mem)
Store(mem, i, b) == [mem EXCEPT ![Cell(mem, i)] = b]
Load(mem, i) == mem[Cell(mem, i)]

\* ptr::copy_nonoverlapping(src + from, dst + at, count)
CopyNonoverlapping(src, from, dst, at, count) ==
    [j \in DOMAIN dst |->
        IF j < Capacity(dst)
        THEN (IF at <= j /\ j < at + count THEN Load(src, from + (j - at)) ELSE dst[j])
        ELSE (IF count > 0 /\ (at < 0 \/ at + count > Capacity(dst))
              THEN Load(src, from + (Capacity(dst) - at)) ELSE dst[j])]

\* ptr::write_bytes(dst + at, b, count)
WriteBytes(dst, at, b, count) ==
    [j \in DOMAIN dst |->
        IF j < Capacity(dst)
        THEN (IF at <= j /\ j < at + count THEN b ELSE dst[j])
        ELSE (IF count > 0 /\ (at < 0 \/ at + count > Capacity(dst)) THEN b ELSE dst[j])]

\* u8 arithmetic wraps
U8 == 256
Byte0 == 48
AsU8(n) == n % U8

\* ------------------------------------------------------------------------
\* ftoa/grisu2.rs
\* ------------------------------------------------------------------------

\* const TENS: [u64; 20] = [10^19, 10^18, ..., 10, 1]
TensLen == 20
TENS(i) == BigPow10(TensLen - 1 - i)

\* let mut digits: [u8; 18]
DigitsLen == 18

\* the byte the digit loops store for a u64 digit: (digit as u8) + b'0'
DigitByte(digit) == AsU8(ToInt(BigLow(digit, 8)) + Byte0)

Absv(x) == IF x < 0 THEN -x ELSE x
Minv(a, b) == IF a < b THEN a ELSE b

\* exponent_notation_char(radix): 'e', or '^' where 'e' is a digit
exponent_notation_char(radix) == IF radix >= 15 THEN 94 ELSE 101

\* the destination buffer the callers of fpconv_dtoa provide
WORST_CASE_SIZE == 60

VARIABLES pc, d, w, upper, lower, gen, rd, digits, k, ndigits, dest, len

fvars == <<pc, d, w, upper, lower, gen, rd, digits, k, ndigits, dest, len>>

\* lexical-write-integer: the call in progress
VARIABLES ipc, entry, ty, value, format, feature_format, debug_assertions, bytes, ilen

ivars == <<ipc, entry, ty, value, format, feature_format, debug_assertions, bytes, ilen>>

vars == <<fvars, ivars>>

\* lexical_util::format::STANDARD
STANDARD == [radix |-> 10, required_mantissa_sign |-> FALSE, is_valid |-> TRUE]

\* no integer is being written
IntIdle ==
    /\ ipc = "idle" /\ entry = "none" /\ ty = "u8" /\ value = 0
    /\ format = STANDARD /\ feature_format = FALSE /\ debug_assertions = FALSE
    /\ bytes = Buffer(0) /\ ilen = 0

NoFloat == FloatType(<<>>, 0)
NoGen == [wfrac |-> <<>>, delta |-> <<>>, one |-> NoFloat, part1 |-> <<>>,
          part2 |-> <<>>, idx |-> 0, kappa |-> 0, divp |-> 0, unit |-> 0]
NoRd == [ndigits |-> 0, delta |-> <<>>, rem |-> <<>>, kappa |-> <<>>, frac |-> <<>>]

\* grisu2, up to its call of generate_digits
grisu2 ==
    /\ pc = "grisu2"
    /\ LET w0 == from_f64(d)
           b  == normalized_boundaries(w0)
           c  == cached_grisu_power(b.upper.exp)
           w1 == fast_multiply(normalize(w0), c.cp)
           u1 == fast_multiply(b.upper, c.cp)
           l1 == fast_multiply(b.lower, c.cp)
       IN  /\ w' = w1
           /\ lower' = FloatType(WrappingAdd(l1.frac, <<1>>), l1.exp)
           /\ upper' = FloatType(WrappingSub(u1.frac, <<1>>), u1.exp)
           /\ k' = -c.k
    /\ pc' = "generate_digits"
    /\ UNCHANGED <<d, gen, rd, digits, ndigits, dest, len>>
    /\ UNCHANGED ivars

\* generate_digits, up to its first loop
generate_digits ==
    /\ pc = "generate_digits"
    /\ LET one == FloatType(WrappingShl(<<1>>, -upper.exp), upper.exp)
       IN  gen' = [wfrac |-> WrappingSub(upper.frac, w.frac),
                   delta |-> WrappingSub(upper.frac, lower.frac),
                   one   |-> one,
                   part1 |-> BigShr(upper.frac, -one.exp),
                   part2 |-> BigLow(upper.frac, -one.exp),
                   idx   |-> 0,
                   kappa |-> 10,
                   divp  |-> 10,
                   unit  |-> 0]
    /\ pc' = "int_loop"
    /\ UNCHANGED <<d, w, upper, lower, rd, digits, k, ndigits, dest, len>>
    /\ UNCHANGED ivars

\* one pass of `while kappa > 0`, or the step to the second loop; reading
\* outside TENS is undefined
int_loop ==
    /\ pc = "int_loop"
    /\ IF gen.kappa > 0 /\ gen.divp \notin 0..(TensLen - 1)
       THEN /\ pc' = "ub"
            /\ UNCHANGED <<gen, rd, digits, k>>
       ELSE IF gen.kappa > 0
       THEN LET div    == TENS(gen.divp)
                digit  == BigDiv(gen.part1, div)
                emit   == digit # <<>> \/ gen.idx # 0
                idx    == IF emit THEN gen.idx + 1 ELSE gen.idx
                part1  == WrappingSub(gen.part1, WrappingMul(digit, div))
                kappa  == gen.kappa - 1
                tmp    == WrappingAdd(WrappingShl(part1, -gen.one.exp), gen.part2)
            IN  IF emit /\ gen.idx >= DigitsLen
                THEN /\ pc' = "ub"
                     /\ UNCHANGED <<gen, rd, digits, k>>
                ELSE /\ digits' = IF emit THEN Store(digits, gen.idx, DigitByte(digit))
                                  ELSE digits
                     /\ IF Le(tmp, gen.delta)
                        THEN /\ k' = k + kappa
                             /\ rd' = [ndigits |-> idx, delta |-> gen.delta, rem |-> tmp,
                                       kappa |-> WrappingShl(div, -gen.one.exp),
                                       frac |-> gen.wfrac]
                             /\ gen' = [gen EXCEPT !.idx = idx, !.part1 = part1,
                                                   !.kappa = kappa]
                             /\ pc' = "round_digit"
                        ELSE /\ gen' = [gen EXCEPT !.idx = idx, !.part1 = part1,
                                                   !.kappa = kappa, !.divp = @ + 1]
                             /\ pc' = "int_loop"
                             /\ UNCHANGED <<rd, k>>
       ELSE /\ gen' = [gen EXCEPT !.unit = TensLen - 2]
            /\ pc' = "frac_loop"
            /\ UNCHANGED <<rd, digits, k>>
    /\ UNCHANGED <<d, w, upper, lower, ndigits, dest, len>>
    /\ UNCHANGED ivars

\* frac_step without `delta *= 10`
frac_step_keeps_delta(g) ==
    LET part2m == WrappingMul(g.part2, <<10>>)
    IN  [delta |-> g.delta,
         kappa |-> g.kappa - 1,
         digit |-> BigShr(part2m, -g.one.exp),
         part2 |-> BigLow(part2m, -g.one.exp)]

\* frac_step without `kappa -= 1`
frac_step_keeps_kappa(g) ==
    LET part2m == WrappingMul(g.part2, <<10>>)
    IN  [delta |-> WrappingMul(g.delta, <<10>>),
         kappa |-> g.kappa,
         digit |-> BigShr(part2m, -g.one.exp),
         part2 |-> BigLow(part2m, -g.one.exp)]

\* the second `loop`, from its top to the test of `part2 < delta`
frac_step(g) ==
    LET part2m == WrappingMul(g.part2, <<10>>)
    IN  [delta |-> WrappingMul(g.delta, <<10>>),
         kappa |-> g.kappa - 1,
         digit |-> BigShr(part2m, -g.one.exp),
         part2 |-> BigLow(part2m, -g.one.exp)]

\* one pass of the second `loop`; moving `unit` below TENS[0] is undefined
frac_loop ==
    /\ pc = "frac_loop"
    /\ LET s    == frac_step(gen)
           emit == s.digit # <<>> \/ gen.idx # 0
           idx  == IF emit THEN gen.idx + 1 ELSE gen.idx
           g1   == [gen EXCEPT !.idx = idx, !.part2 = s.part2, !.delta = s.delta,
                               !.kappa = s.kappa]
       IN  IF emit /\ gen.idx >= DigitsLen
           THEN /\ pc' = "ub"
                /\ UNCHANGED <<gen, rd, digits, k>>
           ELSE /\ digits' = IF emit THEN Store(digits, gen.idx, DigitByte(s.digit))
                             ELSE digits
                /\ IF Lt(s.part2, s.delta)
                   THEN /\ k' = k + s.kappa
                        /\ rd' = [ndigits |-> idx, delta |-> s.delta, rem |-> s.part2,
                                  kappa |-> gen.one.frac,
                                  frac |-> WrappingMul(gen.wfrac, TENS(gen.unit))]
                        /\ gen' = g1
                        /\ pc' = "round_digit"
                   ELSE /\ gen' = [g1 EXCEPT !.unit = @ - 1]
                        /\ pc' = IF gen.unit = 0 THEN "ub" ELSE "frac_loop"
                        /\ UNCHANGED <<rd, k>>
    /\ UNCHANGED <<d, w, upper, lower, ndigits, dest, len>>
    /\ UNCHANGED ivars

\* RoundDigitCond with only its test of which neighbour is closer
RoundDigitCondOnlyCloser(r) ==
    \/ Lt(WrappingAdd(r.rem, r.kappa), r.frac)
    \/ Lt(WrappingSub(WrappingAdd(r.rem, r.kappa), r.frac), WrappingSub(r.frac, r.rem))

\* the condition of round_digit's `while`
RoundDigitCond(r) ==
    /\ Lt(r.rem, r.frac)
    /\ Le(r.kappa, WrappingSub(r.delta, r.rem))
    /\ \/ Lt(WrappingAdd(r.rem, r.kappa), r.frac)
       \/ Lt(WrappingSub(WrappingAdd(r.rem, r.kappa), r.frac), WrappingSub(r.frac, r.rem))

\* one pass of round_digit's `while`, or its return through generate_digits
\* and grisu2 to fpconv_dtoa
round_digit ==
    /\ pc = "round_digit"
    /\ IF RoundDigitCond(rd)
       THEN IF rd.ndigits < 1 \/ rd.ndigits > DigitsLen
            THEN /\ pc' = "ub"
                 /\ UNCHANGED <<rd, digits, ndigits>>
            ELSE /\ digits' = Store(digits, rd.ndigits - 1,
                                    AsU8(Load(digits, rd.ndigits - 1) - 1))
                 /\ rd' = [rd EXCEPT !.rem = WrappingAdd(rd.rem, rd.kappa)]
                 /\ pc' = "round_digit"
                 /\ UNCHANGED ndigits
       ELSE /\ ndigits' = gen.idx
            /\ pc' = "emit_digits"
            /\ UNCHANGED <<rd, digits>>
    /\ UNCHANGED <<d, w, upper, lower, gen, k, dest, len>>
    /\ UNCHANGED ivars

\* is_plain with `exp <= (ndigits + 7)`
is_plain_inclusive(ndigits0, k0) == k0 >= 0 /\ Absv(k0 + ndigits0 - 1) <= ndigits0 + 7

\* is_plain without the bound on exp
is_plain_unbounded(ndigits0, k0) == k0 >= 0

\* emit_digits, `if k >= 0 && exp < (ndigits + 7)`
is_plain(ndigits0, k0) == k0 >= 0 /\ Absv(k0 + ndigits0 - 1) < ndigits0 + 7

\* emit_digits, `if k < 0 && (k > -7 || exp < 4)`
is_decimal(ndigits0, k0) == k0 < 0 /\ (k0 > -7 \/ Absv(k0 + ndigits0 - 1) < 4)

\* emit_plain returning the length without the padding
emit_plain_short_length(digs, ndigits0, dst, k0) ==
    LET idx   == ndigits0
        count == k0
        d1 == CopyNonoverlapping(digs, 0, dst, 0, idx)
        d2 == WriteBytes(d1, idx, Byte0, count)
        d3 == Store(Store(d2, idx + count, 46), idx + count + 1, Byte0)
    IN  [dest |-> d3, ret |-> ndigits0 + 2]

\* emit_digits: plain integer (with ".0" suffix)
emit_plain(digs, ndigits0, dst, k0) ==
    LET idx   == ndigits0
        count == k0
        d1 == CopyNonoverlapping(digs, 0, dst, 0, idx)
        d2 == WriteBytes(d1, idx, Byte0, count)
        d3 == Store(Store(d2, idx + count, 46), idx + count + 1, Byte0)
    IN  [dest |-> d3, ret |-> ndigits0 + k0 + 2]

\* emit_decimal copying the digits after the point from the start of digits
emit_decimal_restarts(digs, ndigits0, dst, k0) ==
    LET offset0 == ndigits0 - Absv(k0)
    IN  IF offset0 <= 0
        THEN LET offset == -offset0
                 d1 == Store(Store(dst, 0, Byte0), 1, 46)
                 d2 == WriteBytes(d1, 2, Byte0, offset)
                 d3 == CopyNonoverlapping(digs, 0, d2, offset + 2, ndigits0)
             IN  [dest |-> d3, ret |-> ndigits0 + 2 + offset]
        ELSE LET d1 == CopyNonoverlapping(digs, 0, dst, 0, offset0)
                 d2 == Store(d1, offset0, 46)
                 d3 == CopyNonoverlapping(digs, 0, d2, offset0 + 1,
                                          ndigits0 - offset0)
             IN  [dest |-> d3, ret |-> ndigits0 + 1]

\* emit_digits: decimal without scientific notation
emit_decimal(digs, ndigits0, dst, k0) ==
    LET offset0 == ndigits0 - Absv(k0)
    IN  IF offset0 <= 0
        THEN \* fp < 1.0 -> write leading zero
             LET offset == -offset0
                 d1 == Store(Store(dst, 0, Byte0), 1, 46)
                 d2 == WriteBytes(d1, 2, Byte0, offset)
                 d3 == CopyNonoverlapping(digs, 0, d2, offset + 2, ndigits0)
             IN  [dest |-> d3, ret |-> ndigits0 + 2 + offset]
        ELSE \* fp > 1.0
             LET d1 == CopyNonoverlapping(digs, 0, dst, 0, offset0)
                 d2 == Store(d1, offset0, 46)
                 d3 == CopyNonoverlapping(digs, offset0, d2, offset0 + 1,
                                          ndigits0 - offset0)
             IN  [dest |-> d3, ret |-> ndigits0 + 1]

\* emit_scientific without `else if cent != 0`: a tens digit of zero is skipped
emit_scientific_skips_zero(digs, ndigits0, dst, k0) ==
    LET exp0 == Absv(k0 + ndigits0 - 1)
        nd   == Minv(ndigits0, DigitsLen)
        d1   == Store(dst, 0, Load(digs, 0))
        d2   == IF nd > 1
                THEN CopyNonoverlapping(digs, 1, Store(d1, 1, 46), 2, nd - 1)
                ELSE d1
        i2   == IF nd > 1 THEN 2 + (nd - 1) ELSE 1
        d3   == Store(d2, i2, exponent_notation_char(10))
        sign == IF k0 + nd - 1 < 0 THEN 45 ELSE 43
        d4   == Store(d3, i2 + 1, sign)
        i4   == i2 + 2
        cent == IF exp0 > 99 THEN exp0 \div 100 ELSE 0
        d5   == IF exp0 > 99 THEN Store(d4, i4, AsU8(AsU8(cent) + Byte0)) ELSE d4
        i5   == IF exp0 > 99 THEN i4 + 1 ELSE i4
        exp1 == exp0 - cent * 100
        dec  == exp1 \div 10
        d6   == IF exp1 > 9 THEN Store(d5, i5, AsU8(AsU8(dec) + Byte0))
                ELSE d5
        i6   == IF exp1 > 9 THEN i5 + 1 ELSE i5
        exp2 == IF exp1 > 9 THEN exp1 - dec * 10 ELSE exp1
        d7   == Store(d6, i6, AsU8(AsU8(exp2 % 10) + Byte0))
    IN  [dest |-> d7, ret |-> i6 + 1]

\* emit_digits: decimal with scientific notation
emit_scientific(digs, ndigits0, dst, k0) ==
    LET exp0 == Absv(k0 + ndigits0 - 1)
        nd   == Minv(ndigits0, DigitsLen)
        d1   == Store(dst, 0, Load(digs, 0))
        d2   == IF nd > 1
                THEN CopyNonoverlapping(digs, 1, Store(d1, 1, 46), 2, nd - 1)
                ELSE d1
        i2   == IF nd > 1 THEN 2 + (nd - 1) ELSE 1
        d3   == Store(d2, i2, exponent_notation_char(10))
        sign == IF k0 + nd - 1 < 0 THEN 45 ELSE 43
        d4   == Store(d3, i2 + 1, sign)
        i4   == i2 + 2
        cent == IF exp0 > 99 THEN exp0 \div 100 ELSE 0
        d5   == IF exp0 > 99 THEN Store(d4, i4, AsU8(AsU8(cent) + Byte0)) ELSE d4
        i5   == IF exp0 > 99 THEN i4 + 1 ELSE i4
        exp1 == exp0 - cent * 100
        dec  == exp1 \div 10
        d6   == IF exp1 > 9 THEN Store(d5, i5, AsU8(AsU8(dec) + Byte0))
                ELSE IF cent # 0 THEN Store(d5, i5, Byte0)
                ELSE d5
        i6   == IF exp1 > 9 \/ cent # 0 THEN i5 + 1 ELSE i5
        exp2 == IF exp1 > 9 THEN exp1 - dec * 10 ELSE exp1
        d7   == Store(d6, i6, AsU8(AsU8(exp2 % 10) + Byte0))
    IN  [dest |-> d7, ret |-> i6 + 1]

\* emit_digits: the bytes written to dest and the length returned
emit_digits(digs, ndigits0, dst, k0) ==
    IF is_plain(ndigits0, k0) THEN emit_plain(digs, ndigits0, dst, k0)
    ELSE IF is_decimal(ndigits0, k0) THEN emit_decimal(digs, ndigits0, dst, k0)
    ELSE emit_scientific(digs, ndigits0, dst, k0)

\* fpconv_dtoa after grisu2 has returned: emit_digits into dest; double_base10
\* returns first + len
fpconv_dtoa ==
    /\ pc = "emit_digits"
    /\ LET r == emit_digits(digits, ndigits, dest, k)
       IN  /\ dest' = r.dest
           /\ len' = r.ret
    /\ pc' = "done"
    /\ UNCHANGED <<d, w, upper, lower, gen, rd, digits, k, ndigits>>
    /\ UNCHANGED ivars

\* ------------------------------------------------------------------------
\* The doubles the conversion is run on.
\* ------------------------------------------------------------------------

Double(e, f) == [e |-> e, f |-> f]
MaxBiasedExp == 2046
AllOnes == Sub(HiddenBit, <<1>>)

\* 2^52 / golden ratio: its multiples modulo 2^52 spread over the fractions
FracSeed == <<29863, 14127, 3550, 79>>
MaxFracIdx == 3
MaxExpIdx == 20
ExpStride == 97

FracSample(j) == BigLow(MulSmall(FracSeed, j), FracBits)
ExpSample(i) == 1 + ((i * ExpStride) % MaxBiasedExp)

NamedDoubles ==
    { Double(1023, <<>>),                            \* 1.0
      Double(1019, <<6554, 13107, 26214, 76>>),      \* 0.1
      Double(1046, <<0, 0, 19264, 24>>),             \* 1e7
      Double(1049, <<0, 0, 24080, 62>>),             \* 1e8
      Double(2020, <<22581, 19456, 11445, 15>>),     \* 1.5e300
      Double(1075, <<>>),                            \* 2^52
      Double(MaxBiasedExp, AllOnes),                 \* f64::MAX
      Double(0, <<1>>),                              \* the smallest subnormal
      Double(0, AllOnes),                            \* the largest subnormal
      Double(1, <<>>),                               \* the smallest normal
      Double(1099, <<19190, 4034, 13323, 41>>) }     \* 1e23

Doubles ==
    NamedDoubles
    \cup { Double(ExpSample(i), f) :
             i \in 0..MaxExpIdx,
             f \in {FracSample(j) : j \in 0..MaxFracIdx} \cup {<<1>>, AllOnes} }
    \cup { Double(0, FracSample(j)) : j \in 1..MaxFracIdx }

Init ==
    /\ pc = "grisu2"
    /\ d \in Doubles
    /\ w = NoFloat /\ upper = NoFloat /\ lower = NoFloat
    /\ gen = NoGen /\ rd = NoRd
    /\ digits = Buffer(DigitsLen)
    /\ k = 0 /\ ndigits = 0
    /\ dest = Buffer(WORST_CASE_SIZE)
    /\ len = 0
    /\ IntIdle

Next == grisu2 \/ generate_digits \/ int_loop \/ frac_loop \/ round_digit \/ fpconv_dtoa

Spec == Init /\ [][Next]_vars

\* ------------------------------------------------------------------------
\* What the written bytes denote, and which doubles a decimal rounds to.
\* ------------------------------------------------------------------------

IsDigit(c) == Byte0 <= c /\ c <= Byte0 + 9

\* the decimal number mant * 10^exp10 written in mem[0..n): digits, an
\* optional '.' and more digits, an optional 'e', sign and exponent digits
RECURSIVE ParseFrom(_, _, _, _, _, _, _, _)
ParseFrom(mem, i, n, phase, mant, scale, esign, e) ==
    IF i >= n
    THEN [ok |-> n > 0 /\ IsDigit(Load(mem, 0)) /\ IsDigit(Load(mem, n - 1)),
          mant |-> mant, exp10 |-> esign * e - scale]
    ELSE LET c == Load(mem, i)
         IN  IF ~(Len(mant) >= 0) THEN [ok |-> FALSE, mant |-> mant, exp10 |-> 0]
             ELSE IF IsDigit(c) /\ phase = "int"
             THEN ParseFrom(mem, i + 1, n, phase, Add(MulSmall(mant, 10), FromInt(c - Byte0)),
                            scale, esign, e)
             ELSE IF IsDigit(c) /\ phase = "frac"
             THEN ParseFrom(mem, i + 1, n, phase, Add(MulSmall(mant, 10), FromInt(c - Byte0)),
                            scale + 1, esign, e)
             ELSE IF IsDigit(c) /\ phase = "exp"
             THEN ParseFrom(mem, i + 1, n, phase, mant, scale, esign, 10 * e + (c - Byte0))
             ELSE IF c = 46 /\ phase = "int"
             THEN ParseFrom(mem, i + 1, n, "frac", mant, scale, esign, e)
             ELSE IF c = 101 /\ phase \in {"int", "frac"}
             THEN ParseFrom(mem, i + 1, n, "sign", mant, scale, esign, e)
             ELSE IF c \in {43, 45} /\ phase = "sign"
             THEN ParseFrom(mem, i + 1, n, "exp", mant, scale, IF c = 45 THEN -1 ELSE 1, e)
             ELSE [ok |-> FALSE, mant |-> mant, exp10 |-> 0]

ParseDecimal(mem, n) == ParseFrom(mem, 0, n, "int", <<>>, 0, 1, 0)

Max0(x) == IF x > 0 THEN x ELSE 0

\* the sign of a * 10^a10 - b * 2^b2 (a10 and b2 may be negative)
CmpDecBin(a, a10, b, b2) ==
    Cmp(BigShl(Mul(BigPow10(Max0(a10)), a), Max0(-b2)),
        BigShl(Mul(BigPow10(Max0(-a10)), b), Max0(b2)))

\* a correctly rounded (nearest, ties to even) decimal-to-double parser maps
\* mant * 10^exp10 to the double dbl = m * 2^q exactly when the decimal lies
\* between the half-way points to dbl's neighbours, the half-way points
\* included when m is even; the lower neighbour is half as far when dbl is a
\* power of two above the smallest normal
RoundsTo(mant, exp10, dbl) ==
    LET fp     == from_f64(dbl)
        closer == dbl.f = <<>> /\ dbl.e > 1
        lo4    == Sub(MulSmall(fp.frac, 4), IF closer THEN <<1>> ELSE <<2>>)
        hi4    == Add(MulSmall(fp.frac, 4), <<2>>)
        even   == LimbAt(fp.frac, 1) % 2 = 0
        cl     == CmpDecBin(mant, exp10, lo4, fp.exp - 2)
        ch     == CmpDecBin(mant, exp10, hi4, fp.exp - 2)
    IN  /\ cl > 0 \/ (cl = 0 /\ even)
        /\ ch < 0 \/ (ch = 0 /\ even)

ParsesBackTo(mem, n, dbl) ==
    LET p == ParseDecimal(mem, n)
    IN  p.ok /\ RoundsTo(p.mant, p.exp10, dbl)

\* ------------------------------------------------------------------------
\* Properties of the float writer (Spec, FairSpec).
\* ------------------------------------------------------------------------

\* C1: the bytes double_base10 writes for a finite positive double d denote a
\* decimal that a correctly rounded parser maps back to exactly d.
RoundTrip == pc = "done" => ParsesBackTo(dest, len, d)

\* a conversion that needed all 17 digits and scientific notation is done
RoundTripWitness ==
    /\ pc = "done"
    /\ ndigits = 17
    /\ \E i \in 0..(WORST_CASE_SIZE - 1) : dest[i] = 101
    /\ ParsesBackTo(dest, len, d)

\* round_digit has decremented at least once: before the first decrement the
\* remainder is below the weight of the last digit
HasDecremented == pc = "round_digit" /\ Le(rd.kappa, rd.rem)

\* C8: every byte stored in the digit buffer is an ASCII decimal digit, no
\* byte is stored outside the buffer, and round_digit decrements only a
\* digit above '0'.
DigitsStayInRange ==
    /\ \A i \in 0..(DigitsLen - 1) : digits[i] # Unwritten => IsDigit(digits[i])
    /\ digits[DigitsLen] = Unwritten
    /\ (pc = "round_digit" /\ RoundDigitCond(rd))
          => (Load(digits, rd.ndigits - 1) > Byte0 /\ IsDigit(Load(digits, rd.ndigits - 1)))
    /\ pc \in {"emit_digits", "done"}
          => \A i \in 0..(ndigits - 1) : IsDigit(Load(digits, i))

\* round_digit has decremented and the digits are still digits
DigitsStayInRangeWitness ==
    /\ HasDecremented
    /\ \A i \in 0..(rd.ndigits - 1) : IsDigit(Load(digits, i))

\* the cursors of generate_digits stay inside TENS and the digit buffer
CursorsInBounds ==
    /\ pc # "ub"
    /\ gen.idx <= DigitsLen
    /\ pc = "int_loop" => (gen.kappa > 0 => gen.divp \in 0..(TensLen - 1))
    /\ pc = "frac_loop" => gen.unit \in 0..(TensLen - 2)
    /\ pc = "round_digit" => (rd.ndigits >= 1 /\ rd.ndigits <= DigitsLen)
    /\ pc \in {"emit_digits", "done"} => (ndigits >= 1 /\ ndigits <= DigitsLen)

\* the steps left, at most: the first loop counts kappa down, the second
\* moves `unit` down TENS, round_digit counts the last digit down to '0'
StepsLeft ==
    CASE pc = "grisu2"          -> 4 + (TensLen + 1) + (TensLen + 1) + 10
      [] pc = "generate_digits" -> 3 + (TensLen + 1) + (TensLen + 1) + 10
      [] pc = "int_loop"        -> 3 + (TensLen + 1) + gen.kappa + 10
      [] pc = "frac_loop"       -> 3 + gen.unit + 10
      [] pc = "round_digit"     -> 2 + (Load(digits, rd.ndigits - 1) - Byte0)
      [] pc = "emit_digits"     -> 1
      [] OTHER                  -> 0

\* C9: generate_digits terminates with 1 <= count <= 18, and the second loop
\* stops before `unit` leaves TENS: the cursors stay in bounds and every
\* step uses up one of a bounded number of steps left.
BoundedTermination ==
    /\ [](CursorsInBounds /\ StepsLeft >= 0)
    /\ [][StepsLeft' < StepsLeft]_vars

\* a conversion that went through the second loop has returned its count
BoundedTerminationWitness ==
    /\ pc = "emit_digits"
    /\ gen.kappa < 0
    /\ gen.unit < TensLen - 2
    /\ ndigits >= 1

\* ------------------------------------------------------------------------
\* emit_digits on its own (EmitSpec): every digit count, every decimal
\* exponent a finite double can have, a few digit strings.
\* ------------------------------------------------------------------------

\* the decimal exponent of the leading digit of a finite non-zero double:
\* 5e-324 (the smallest subnormal) to 1.7976931348623157e308 (f64::MAX)
MinExp10 == -324
MaxExp10 == 308

MaxPattern == 1

\* digit strings without a zero, so that every position differs from its
\* neighbours: "1234567891...", "2468135792...", ...
PatternDigit(p, i) == Byte0 + 1 + ((p + i * (p + 1)) % 9)

DigitPattern(p, n) ==
    [i \in 0..DigitsLen |-> IF i < n THEN PatternDigit(p, i) ELSE Unwritten]

EmitInit ==
    /\ pc = "emit_digits"
    /\ d = Double(0, <<>>)
    /\ w = NoFloat /\ upper = NoFloat /\ lower = NoFloat
    /\ gen = NoGen /\ rd = NoRd
    /\ ndigits \in 1..DigitsLen
    /\ k \in (MinExp10 - ndigits + 1)..(MaxExp10 - ndigits + 1)
    /\ \E p \in 0..MaxPattern : digits = DigitPattern(p, ndigits)
    /\ dest = Buffer(WORST_CASE_SIZE)
    /\ len = 0
    /\ IntIdle

EmitNext == fpconv_dtoa

EmitSpec == EmitInit /\ [][EmitNext]_vars

\* every cell from index `from` on, the cell for the outside of the buffer
\* included, was never written
UnwrittenFrom(mem, from) == \A i \in DOMAIN mem : i >= from => mem[i] = Unwritten

\* the decimal digits of x, most significant first, as bytes
DecimalWidth(x) == IF x <= 9 THEN 1 ELSE IF x <= 99 THEN 2 ELSE 3
DecimalByte(x, width, j) ==
    Byte0 + ((x \div (IF width - 1 - j = 2 THEN 100 ELSE IF width - 1 - j = 1 THEN 10 ELSE 1)) % 10)

\* C2: plain-integer layout: for k >= 0 and |k+n-1| < n+7 the n digits, then
\* k bytes '0', then ".0"; the length is n + k + 2 and nothing else is written.
PlainLayout ==
    (pc = "done" /\ k >= 0 /\ Absv(k + ndigits - 1) < ndigits + 7)
    => /\ \A i \in 0..(ndigits - 1) : dest[i] = digits[i]
       /\ \A i \in ndigits..(ndigits + k - 1) : dest[i] = Byte0
       /\ dest[ndigits + k] = 46
       /\ dest[ndigits + k + 1] = Byte0
       /\ len = ndigits + k + 2
       /\ UnwrittenFrom(dest, ndigits + k + 2)

PlainLayoutWitness ==
    /\ pc = "done" /\ k = 3 /\ ndigits = 5
    /\ dest[4] = digits[4] /\ dest[7] = Byte0 /\ dest[8] = 46 /\ len = 10

\* C3: for every digit count, k = 7 is written plain and k = 8 in scientific
\* notation; the digit '1' gives "10000000.0" for k = 7 and "1e+8" for k = 8.
ThresholdCrossover ==
    pc = "done" =>
       /\ k = 7 => /\ len = ndigits + 9
                   /\ dest[len - 2] = 46 /\ dest[len - 1] = Byte0
                   /\ \A i \in 0..(len - 1) : dest[i] # 101
       /\ k = 8 => LET m == IF ndigits = 1 THEN 1 ELSE ndigits + 1
                   IN  /\ dest[m] = 101 /\ dest[m + 1] = 43
                       /\ \A i \in 0..(m - 1) : dest[i] # 101
                       /\ len = m + 2 + DecimalWidth(ndigits + 7)
       /\ (ndigits = 1 /\ digits[0] = Byte0 + 1 /\ k = 7)
             => /\ len = 10
                /\ [i \in 0..9 |-> dest[i]] = [i \in 0..9 |-> <<49, 48, 48, 48, 48, 48, 48, 48, 46, 48>>[i + 1]]
       /\ (ndigits = 1 /\ digits[0] = Byte0 + 1 /\ k = 8)
             => /\ len = 4
                /\ [i \in 0..3 |-> dest[i]] = [i \in 0..3 |-> <<49, 101, 43, 56>>[i + 1]]

ThresholdCrossoverWitness ==
    /\ pc = "done" /\ ndigits = 1 /\ digits[0] = Byte0 + 1 /\ k = 8
    /\ len = 4 /\ dest[1] = 101 /\ dest[3] = Byte0 + 8

\* C4: decimal-point layout: for k < 0 and (k > -7 or |k+n-1| < 4), if
\* n <= |k| then "0.", |k|-n bytes '0' and the n digits, of length |k| + 2;
\* otherwise the first n-|k| digits, '.', and the other |k| digits, of
\* length n + 1; the digits keep their order, none dropped or repeated.
DecimalLayout ==
    (pc = "done" /\ k < 0 /\ (k > -7 \/ Absv(k + ndigits - 1) < 4))
    => IF ndigits <= -k
       THEN /\ dest[0] = Byte0 /\ dest[1] = 46
            /\ \A i \in 2..(1 + (-k - ndigits)) : dest[i] = Byte0
            /\ \A i \in 0..(ndigits - 1) : dest[2 + (-k - ndigits) + i] = digits[i]
            /\ len = -k + 2
            /\ UnwrittenFrom(dest, -k + 2)
       ELSE /\ \A i \in 0..(ndigits + k - 1) : dest[i] = digits[i]
            /\ dest[ndigits + k] = 46
            /\ \A i \in (ndigits + k)..(ndigits - 1) : dest[i + 1] = digits[i]
            /\ len = ndigits + 1
            /\ UnwrittenFrom(dest, ndigits + 1)

DecimalLayoutWitness ==
    /\ pc = "done" /\ k = -3 /\ ndigits = 5
    /\ dest[1] = digits[1] /\ dest[2] = 46 /\ dest[3] = digits[2] /\ dest[5] = digits[4]
    /\ len = 6

\* C5: scientific notation: the first digit, '.' and the other digits when
\* there are any, 'e', then '-' if k+n-1 < 0 and '+' otherwise, then the
\* decimal digits of |k+n-1| without a leading zero (a tens digit of zero is
\* written when there is a hundreds digit); the length counts these bytes.
ScientificExponent ==
    (/\ pc = "done"
     /\ ~(k >= 0 /\ Absv(k + ndigits - 1) < ndigits + 7)
     /\ ~(k < 0 /\ (k > -7 \/ Absv(k + ndigits - 1) < 4)))
    => LET e10   == k + ndigits - 1
           m     == IF ndigits = 1 THEN 1 ELSE ndigits + 1
           width == DecimalWidth(Absv(e10))
       IN  /\ dest[0] = digits[0]
           /\ ndigits > 1 => /\ dest[1] = 46
                             /\ \A i \in 1..(ndigits - 1) : dest[i + 1] = digits[i]
           /\ dest[m] = 101
           /\ dest[m + 1] = IF e10 < 0 THEN 45 ELSE 43
           /\ \A j \in 0..(width - 1) : dest[m + 2 + j] = DecimalByte(Absv(e10), width, j)
           /\ dest[m + 2] # Byte0
           /\ len = m + 2 + width
           /\ UnwrittenFrom(dest, m + 2 + width)

\* an exponent of 305 is written '3', '0', '5'
ScientificExponentWitness ==
    /\ pc = "done" /\ ndigits = 2 /\ k = 304
    /\ dest[3] = 101 /\ dest[4] = 43
    /\ dest[5] = Byte0 + 3 /\ dest[6] = Byte0 /\ dest[7] = Byte0 + 5
    /\ len = 8

\* C6: for every digit count 1..18 and every decimal exponent of a finite
\* double, every byte written lies below the returned length, and that
\* length is at most WORST_CASE_SIZE.
WorstCaseSize ==
    pc = "done" =>
       /\ \A i \in DOMAIN dest : dest[i] # Unwritten => i < len
       /\ len <= WORST_CASE_SIZE

\* the longest output: 18 digits and 7 zeros before ".0"
WorstCaseSizeWitness ==
    /\ pc = "done" /\ ndigits = DigitsLen /\ k = 7
    /\ len = 27 /\ dest[26] = Byte0 /\ dest[27] = Unwritten

\* ------------------------------------------------------------------------
\* lexical-write-integer/src/api.rs (IntSpec)
\* ------------------------------------------------------------------------

\* the integer types: the generic impl serves the unsigned ones, the macro
\* signed_to_lexical! the signed ones
IntTypes == {"u8", "i8", "u16", "i16"}
IsSigned(t) == t \in {"i8", "i16"}
BITS(t) == IF t \in {"u8", "i8"} THEN 8 ELSE 16
MinValue(t) == IF IsSigned(t) THEN -Pow2(BITS(t) - 1) ELSE 0
MaxValue(t) == IF IsSigned(t) THEN Pow2(BITS(t) - 1) - 1 ELSE Pow2(BITS(t)) - 1

\* lexical_util::constants::FormattedSize
FORMATTED_SIZE_DECIMAL(t) ==
    CASE t = "u8" -> 3 [] t = "i8" -> 4 [] t = "u16" -> 5 [] t = "i16" -> 6
FORMATTED_SIZE(t) == 2 * BITS(t)

\* the condition of lexical_util::assert::assert_buffer and debug_assert_buffer
assert_buffer(t, radix, length) ==
    IF radix = 10 THEN length >= FORMATTED_SIZE_DECIMAL(t)
    ELSE length >= FORMATTED_SIZE(t)

\* T::unsigned_abs: the magnitude as the unsigned type of the same width
AsUnsigned(t, v) == v % Pow2(BITS(t))
unsigned_abs(t, v) ==
    IF v < 0 THEN (Pow2(BITS(t)) - AsUnsigned(t, v)) % Pow2(BITS(t)) ELSE AsUnsigned(t, v)

\* WriteInteger::write_mantissa: the digits of x in the radix, most
\* significant first, from buffer[at]; the count of digits
DigitToChar(dg) == IF dg < 10 THEN Byte0 + dg ELSE 65 + (dg - 10)

RECURSIVE DigitCount(_, _)
DigitCount(x, radix) == IF x < radix THEN 1 ELSE 1 + DigitCount(x \div radix, radix)

RECURSIVE WriteDigits(_, _, _, _, _)
WriteDigits(buf, at, x, radix, n) ==
    IF n = 0 THEN buf
    ELSE WriteDigits(Store(buf, at + n - 1, DigitToChar(x % radix)), at,
                     x \div radix, radix, n - 1)

write_mantissa(x, fmt, buf, at) ==
    LET n == DigitCount(x, fmt.radix)
    IN  [bytes |-> WriteDigits(buf, at, x, fmt.radix, n), count |-> n]

\* unsigned::<T, FORMAT>(value, buffer)
unsigned(t, v, fmt, buf) ==
    IF feature_format /\ fmt.required_mantissa_sign
    THEN LET b1 == Store(buf, 0, 43)
             m  == write_mantissa(v, fmt, b1, 1)
         IN  [bytes |-> m.bytes, count |-> m.count + 1]
    ELSE write_mantissa(v, fmt, buf, 0)

\* signed without `+ 1` for the '-' byte
signed_forgets_sign(t, v, fmt, buf) ==
    LET unsigned0 == unsigned_abs(t, v)
    IN  IF v < 0
        THEN write_mantissa(unsigned0, fmt, Store(buf, 0, 45), 1)
        ELSE IF feature_format /\ fmt.required_mantissa_sign
        THEN LET m == write_mantissa(unsigned0, fmt, Store(buf, 0, 43), 1)
             IN  [bytes |-> m.bytes, count |-> m.count + 1]
        ELSE write_mantissa(unsigned0, fmt, buf, 0)

\* signed::<T, FORMAT>(value, buffer)
signed(t, v, fmt, buf) ==
    LET unsigned0 == unsigned_abs(t, v)
    IN  IF v < 0
        THEN LET b1 == Store(buf, 0, 45)
                 m  == write_mantissa(unsigned0, fmt, b1, 1)
             IN  [bytes |-> m.bytes, count |-> m.count + 1]
        ELSE IF feature_format /\ fmt.required_mantissa_sign
        THEN LET b1 == Store(buf, 0, 43)
                 m  == write_mantissa(unsigned0, fmt, b1, 1)
             IN  [bytes |-> m.bytes, count |-> m.count + 1]
        ELSE write_mantissa(unsigned0, fmt, buf, 0)

\* the callback an impl uses: `unsigned` in the generic impl, `signed` in
\* the impls of signed_to_lexical!
Callback(t, v, fmt, buf) ==
    IF IsSigned(t) THEN signed(t, v, fmt, buf) ELSE unsigned(t, v, fmt, buf)

\* to_lexical that goes on without assert_buffer
to_lexical_unasserted ==
    /\ ipc = "to_lexical"
    /\ ipc' = "to_lexical_unchecked"
    /\ UNCHANGED <<entry, ty, value, format, feature_format, debug_assertions, bytes, ilen>>
    /\ UNCHANGED fvars

\* ToLexical::to_lexical
to_lexical ==
    /\ ipc = "to_lexical"
    /\ IF assert_buffer(ty, 10, Capacity(bytes))
       THEN ipc' = "to_lexical_unchecked"
       ELSE ipc' = "panic"
    /\ UNCHANGED <<entry, ty, value, format, feature_format, debug_assertions, bytes, ilen>>
    /\ UNCHANGED fvars

\* ToLexical::to_lexical_unchecked
to_lexical_unchecked ==
    /\ ipc = "to_lexical_unchecked"
    /\ IF debug_assertions /\ ~assert_buffer(ty, 10, Capacity(bytes))
       THEN /\ ipc' = "panic"
            /\ UNCHANGED <<bytes, ilen>>
       ELSE LET r == Callback(ty, value, STANDARD, bytes)
            IN  /\ bytes' = r.bytes
                /\ ilen' = r.count
                /\ ipc' = "done"
    /\ UNCHANGED <<entry, ty, value, format, feature_format, debug_assertions>>
    /\ UNCHANGED fvars

\* ToLexicalWithOptions::to_lexical_with_options
to_lexical_with_options ==
    /\ ipc = "to_lexical_with_options"
    /\ IF assert_buffer(ty, format.radix, Capacity(bytes)) /\ format.is_valid
       THEN ipc' = "to_lexical_with_options_unchecked"
       ELSE ipc' = "panic"
    /\ UNCHANGED <<entry, ty, value, format, feature_format, debug_assertions, bytes, ilen>>
    /\ UNCHANGED fvars

\* ToLexicalWithOptions::to_lexical_with_options_unchecked
to_lexical_with_options_unchecked ==
    /\ ipc = "to_lexical_with_options_unchecked"
    /\ IF \/ debug_assertions /\ ~assert_buffer(ty, format.radix, Capacity(bytes))
          \/ ~format.is_valid
       THEN /\ ipc' = "panic"
            /\ UNCHANGED <<bytes, ilen>>
       ELSE LET r == Callback(ty, value, format, bytes)
            IN  /\ bytes' = r.bytes
                /\ ilen' = r.count
                /\ ipc' = "done"
    /\ UNCHANGED <<entry, ty, value, format, feature_format, debug_assertions>>
    /\ UNCHANGED fvars

\* ---- the calls examined ----

ValueStride == 4099
NearEdge == 2
MaxSlack == 0

Radixes == {2, 10, 16}

\* every 8-bit value; of the 16-bit values those near the ends and near
\* zero, the powers of ten, and every ValueStride-th
IntValues(t) ==
    {v \in MinValue(t)..MaxValue(t) :
        \/ BITS(t) = 8
        \/ v - MinValue(t) <= NearEdge \/ MaxValue(t) - v <= NearEdge
        \/ Absv(v) <= NearEdge
        \/ Absv(v) \in {9, 10, 99, 100, 999, 1000, 9999, 10000}
        \/ v % ValueStride = 0}

Formats ==
    [radix : Radixes, required_mantissa_sign : BOOLEAN, is_valid : BOOLEAN]

SafeEntries == {"to_lexical", "to_lexical_with_options"}
Entries == SafeEntries \cup {"to_lexical_unchecked", "to_lexical_with_options_unchecked"}

EntryFormats(e) ==
    IF e \in {"to_lexical", "to_lexical_unchecked"} THEN {STANDARD} ELSE Formats

\* the buffer lengths: none, and from one short of the size asked for to
\* MaxSlack more than it
Lengths(t, fmt) ==
    LET size == IF fmt.radix = 10 THEN FORMATTED_SIZE_DECIMAL(t) ELSE FORMATTED_SIZE(t)
    IN  {0} \cup ((size - 1)..(size + MaxSlack))

FloatIdle ==
    /\ pc = "idle" /\ d = Double(0, <<>>)
    /\ w = NoFloat /\ upper = NoFloat /\ lower = NoFloat
    /\ gen = NoGen /\ rd = NoRd
    /\ digits = Buffer(DigitsLen) /\ k = 0 /\ ndigits = 0
    /\ dest = Buffer(0) /\ len = 0

IntInit ==
    /\ FloatIdle
    /\ entry \in Entries
    /\ ipc = entry
    /\ ty \in IntTypes
    /\ value \in IntValues(ty)
    /\ format \in EntryFormats(entry)
    /\ feature_format \in BOOLEAN
    /\ debug_assertions \in BOOLEAN
    /\ \E n \in Lengths(ty, format) : bytes = Buffer(n)
    /\ ilen = 0

IntNext ==
    \/ to_lexical
    \/ to_lexical_unchecked
    \/ to_lexical_with_options
    \/ to_lexical_with_options_unchecked

IntSpec == IntInit /\ [][IntNext]_vars

\* the size a buffer must have for the call
SizeAskedFor ==
    IF format.radix = 10
    THEN (IF ty = "u8" THEN 3 ELSE IF ty = "i8" THEN 4 ELSE IF ty = "u16" THEN 5 ELSE 6)
    ELSE (IF ty \in {"u8", "i8"} THEN 16 ELSE 32)

\* C7: a call of to_lexical or to_lexical_with_options, for any integer
\* type, with a buffer shorter than the formatted size for the radix never
\* goes past its buffer-length check: it fails there, no byte of the buffer
\* is written, and none outside it.
BufferRejected ==
    (entry \in SafeEntries /\ Capacity(bytes) < SizeAskedFor)
    => /\ ipc \in {entry, "panic"}
       /\ bytes = Buffer(Capacity(bytes))
       /\ ilen = 0

BufferRejectedWitness ==
    /\ entry = "to_lexical" /\ ipc = "panic" /\ ty = "i16" /\ value = -32768
    /\ Capacity(bytes) = 5 /\ ~debug_assertions
    /\ bytes = Buffer(5)

\* the number the bytes [from, from + n) spell in the radix; -1 if a byte is
\* not a digit of the radix
DigitValue(b) ==
    IF Byte0 <= b /\ b <= Byte0 + 9 THEN b - Byte0
    ELSE IF 65 <= b /\ b <= 90 THEN b - 65 + 10
    ELSE -1

RECURSIVE ReadRadix(_, _, _, _, _)
ReadRadix(mem, from, n, radix, acc) ==
    IF n = 0 THEN acc
    ELSE LET dv == DigitValue(mem[from])
         IN  IF dv < 0 \/ dv >= radix THEN -1
             ELSE ReadRadix(mem, from + 1, n - 1, radix, acc * radix + dv)

\* C10: a finished call for a signed value v < 0 has written '-' and then
\* the digits of |v| (the minimum value included) and returned their count
\* plus one; for v >= 0 it has written the digits of v from index 0 and
\* returned their count, with a '+' before them and one more in the count
\* only when the format requires a mantissa sign.
SignedSignHandling ==
    (ipc = "done" /\ IsSigned(ty) /\ Capacity(bytes) >= SizeAskedFor)
    => LET plus == value >= 0 /\ feature_format /\ format.required_mantissa_sign
           s    == IF value < 0 \/ plus THEN 1 ELSE 0
           mag  == IF value < 0 THEN -value ELSE value
       IN  /\ ilen - s >= 1
           /\ ilen <= Capacity(bytes)
           /\ value < 0 => bytes[0] = 45
           /\ plus => bytes[0] = 43
           /\ ReadRadix(bytes, s, ilen - s, format.radix, 0) = mag
           /\ (ilen - s > 1) => bytes[s] # Byte0
           /\ UnwrittenFrom(bytes, ilen)

\* i8::MIN in decimal: "-128"
SignedSignHandlingWitness ==
    /\ ipc = "done" /\ ty = "i8" /\ value = -128 /\ format.radix = 10
    /\ ilen = 4
    /\ bytes[0] = 45 /\ bytes[1] = 49 /\ bytes[2] = 50 /\ bytes[3] = 56

====
